---- MODULE Spec2Model ----
(***************************************************************************)
(* A model of the TextRazor Go client (textrazor.go): the Params map, the  *)
(* request dispatcher Client.doRequest and the facade methods built on it. *)
(*                                                                         *)
(* Strings that the code inspects character by character (endpoints,       *)
(* paths, identifiers) are sequences of atoms: an atom is either a literal *)
(* run of harmless characters ("entities") or one significant character    *)
(* ("/", "?", "#", " ") or one malformed escape ("%zz").                   *)
(***************************************************************************)
EXTENDS Integers, Sequences, FiniteSets, TLC

\* ------------------------------------------------------------------ bounds
MaxCalls   == 2     \* calls in a row a caller makes with one Params or header map
BodyChunks == 2     \* Read calls a response body takes to reach EOF
MaxHops    == 1     \* redirects the transport answers with in one call
MaxOps     == 3     \* method calls a program makes on one Params map

\* --------------------------------------------------------------- constants
StatusOK                 == 200
StatusServiceUnavailable == 503

apiKeyHeader    == "X-TextRazor-Key"
contentTypeJSON == "application/json"
contentTypeCSV  == "application/csv"
contentTypeURL  == "application/x-www-form-urlencoded"

testAPIKey == "1234567890"

DefaultEndpoint       == <<"http://", "api.textrazor.com">>
DefaultSecureEndpoint == <<"https://", "api.textrazor.com">>
InvalidEndpoint       == <<"INVALID_URL!!!">>
EmptyEndpoint         == <<>>

MethodGet     == "GET"
MethodPost    == "POST"
MethodPut     == "PUT"
MethodDelete  == "DELETE"
InvalidMethod == "INVALID_METHOD<euro>"

\* ------------------------------------------------------------------ errors
\* Every error of the package is built by fmt.Errorf; its kind is the fixed
\* prefix of the message, its code the status code formatted into it.
NilErr         == [kind |-> "nil", code |-> 0]
Err(k)         == [kind |-> k, code |-> 0]
ErrValidateOne == Err("either 'url' or 'text' should be specified, not both")
ErrValidateExt == Err("at least one 'extractors' should be specified")
ErrURI         == Err("URI parsing failed")
ErrEncode      == Err("body request encoding failed")
ErrNewRequest  == Err("http request creation failed")
ErrExecute     == Err("http request execution failed")
ErrRead        == Err("http response body read failed")
ErrStatus(c)   == [kind |-> "unexpected status code", code |-> c]
ErrParse       == Err("http response body parsing failed")
ErrNotOk       == Err("unexpected 'ok' field value")

\* ----------------------------------------------------- sequences of atoms
IndexOf(s, a) ==
    IF \E i \in 1..Len(s) : s[i] = a
    THEN CHOOSE i \in 1..Len(s) : s[i] = a /\ \A j \in 1..(i-1) : s[j] # a
    ELSE 0

Before(s, a) == IF IndexOf(s, a) = 0 THEN s ELSE SubSeq(s, 1, IndexOf(s, a) - 1)
After(s, a)  == IF IndexOf(s, a) = 0 THEN <<>> ELSE SubSeq(s, IndexOf(s, a) + 1, Len(s))
From(s, a)   == IF IndexOf(s, a) = 0 THEN <<>> ELSE SubSeq(s, IndexOf(s, a), Len(s))
Atoms(s)     == {s[i] : i \in 1..Len(s)}

\* ------------------------------------------------------------- net/url
SchemeAtoms == {"http://", "https://"}
BadEscape   == "%zz"
HostUnsafe  == {" ", "#", BadEscape}

UriFail == [err |-> TRUE, Scheme |-> "", Host |-> <<>>, Path |-> <<>>, RawQuery |-> <<>>]

\* url.ParseRequestURI: the string is an absolute URI or an absolute path.
\* No fragment is split off; the query starts at the first "?".
ParseRequestURI(s) ==
    LET hasScheme == Len(s) > 0 /\ Head(s) \in SchemeAtoms
        rest0     == IF hasScheme THEN Tail(s) ELSE s
        rest      == Before(rest0, "?")
        query     == After(rest0, "?")
        host      == IF hasScheme THEN Before(rest, "/") ELSE <<>>
        path      == IF hasScheme THEN From(rest, "/") ELSE rest
    IN  IF s = <<>> THEN UriFail
        ELSE IF ~hasScheme /\ (rest = <<>> \/ Head(rest) # "/") THEN UriFail
        ELSE IF Atoms(host) \cap HostUnsafe # {} THEN UriFail
        ELSE IF BadEscape \in Atoms(path) THEN UriFail
        ELSE [err |-> FALSE,
              Scheme |-> IF hasScheme THEN Head(s) ELSE "",
              Host |-> host, Path |-> path, RawQuery |-> query]

\* URL.EscapedPath as used by URL.String: what the request line carries.
EscapeAtom(a) == IF a = " " THEN "%20" ELSE IF a = "#" THEN "%23" ELSE a
EscapedPath(p) == [i \in 1..Len(p) |-> EscapeAtom(p[i])]

\* ------------------------------------------------------------- Params
ParamKeys == {"text", "url", "extractors"}
ValueChoices == {<<"">>, <<"a", "b">>}

NilParams == [nil |-> TRUE, m |-> <<>>]
MkParams(f) == [nil |-> FALSE, m |-> f]

\* url.Values.Get: the first value under the key, "" when there is none.
ParamsGet(p, key) ==
    IF key \in DOMAIN p.m /\ Len(p.m[key]) > 0 THEN p.m[key][1] ELSE ""

\* Mutant: Set drops the other keys.
ParamsSetClears(p, key, value) == [p EXCEPT !.m = [k \in {key} |-> <<value>>]]

\* Mutant: Set appends to the values of the key, as Add does.
ParamsSetAppends(p, key, value) ==
    [p EXCEPT !.m = [k \in (DOMAIN p.m) \cup {key} |->
                        IF k = key
                        THEN (IF key \in DOMAIN p.m THEN Append(p.m[key], value)
                                                    ELSE <<value>>)
                        ELSE p.m[k]]]

\* url.Values.Set on a non-nil map.
ParamsSet(p, key, value) ==
    [p EXCEPT !.m = [k \in (DOMAIN p.m) \cup {key} |->
                        IF k = key THEN <<value>> ELSE p.m[k]]]

\* Mutant: Add puts the new value in front.
ParamsAddFront(p, key, value) ==
    [p EXCEPT !.m = [k \in (DOMAIN p.m) \cup {key} |->
                        IF k = key
                        THEN (IF key \in DOMAIN p.m THEN <<value>> \o p.m[key]
                                                    ELSE <<value>>)
                        ELSE p.m[k]]]

\* url.Values.Add on a non-nil map.
ParamsAdd(p, key, value) ==
    [p EXCEPT !.m = [k \in (DOMAIN p.m) \cup {key} |->
                        IF k = key
                        THEN (IF key \in DOMAIN p.m THEN Append(p.m[key], value)
                                                    ELSE <<value>>)
                        ELSE p.m[k]]]

\* Mutant: Del removes the first value of the key only.
ParamsDelFirst(p, key) ==
    [p EXCEPT !.m = [k \in (DOMAIN p.m) \ (IF key \in DOMAIN p.m /\ Len(p.m[key]) > 1
                                           THEN {} ELSE {key}) |->
                        IF k = key THEN Tail(p.m[k]) ELSE p.m[k]]]

\* url.Values.Del.
ParamsDel(p, key) ==
    [p EXCEPT !.m = [k \in (DOMAIN p.m) \ {key} |-> p.m[k]]]

\* url.QueryEscape on the values the model uses.
QueryEscape(v) == IF v = "a b" THEN "a+b" ELSE IF v = "a&b" THEN "a%26b" ELSE v

\* The keys the model uses, in the order sort.Strings puts them.
SortedKeys == <<"extractors", "limit", "offset", "text", "url">>

\* Mutant: the keys are not sorted.
Unsorted(ks) == ks

\* sort.Strings on a sequence of distinct keys.
SortStrings(ks) == SelectSeq(SortedKeys, LAMBDA k : k \in Atoms(ks))

\* The orders in which a range over the map may yield its keys.
KeyOrders(p) ==
    {o \in [1..Cardinality(DOMAIN p.m) -> DOMAIN p.m] :
        \A i, j \in DOMAIN o : i # j => o[i] # o[j]}

\* One "key=value" pair per value, the values of a key in their stored order.
RECURSIVE EncodeKeys(_, _)
EncodeKeys(p, keys) ==
    IF keys = <<>> THEN <<>>
    ELSE LET k == Head(keys)
         IN  [j \in 1..Len(p.m[k]) |-> <<QueryEscape(k), QueryEscape(p.m[k][j])>>]
             \o EncodeKeys(p, Tail(keys))

\* url.Values.Encode when the range over the map yields the keys in `order`:
\* the keys are collected, sorted, and written out.
ParamsEncodeIter(p, order) ==
    [err |-> FALSE, str |-> <<"form", EncodeKeys(p, SortStrings(order))>>]

\* Params.Encode: `return url.Values(p).Encode(), nil`.
ParamsEncode(p) == ParamsEncodeIter(p, CHOOSE o \in KeyOrders(p) : TRUE)

\* ------------------------------------------------------------ RequestBody
NilBody        == [kind |-> "nil", value |-> <<>>]
ParamsBody(p)  == [kind |-> "params", value |-> p]
RawBody(s)     == [kind |-> "raw", value |-> s]
DictBody(id)   == [kind |-> "dictionary", value |-> id]
EntriesBody(n) == [kind |-> "entries", value |-> n]
FaultyBody     == [kind |-> "faulty", value |-> <<>>]

\* body.Encode() for each implementation of RequestBody.
Encode(body) ==
    CASE body.kind = "params"     -> ParamsEncode(body.value)
      [] body.kind = "raw"        -> [err |-> FALSE, str |-> <<"raw", body.value>>]
      [] body.kind = "dictionary" -> [err |-> FALSE, str |-> <<"json", body.value>>]
      [] body.kind = "entries"    -> [err |-> FALSE, str |-> <<"json", body.value>>]
      [] body.kind = "faulty"     -> [err |-> TRUE, str |-> <<>>]

\* ------------------------------------------------------------ http.Header
EmptyHeader == [k \in {} |-> <<>>]

\* textproto.CanonicalMIMEHeaderKey.
CanonicalMIMEHeaderKey(k) ==
    IF k = "X-TextRazor-Key" THEN "X-Textrazor-Key"
    ELSE IF k = "content-type" THEN "Content-Type"
    ELSE k

\* http.Header.Add: append under the canonical key.
HeaderAdd(h, key, value) ==
    LET k == CanonicalMIMEHeaderKey(key)
    IN  [x \in (DOMAIN h) \cup {k} |->
            IF x = k THEN (IF k \in DOMAIN h THEN Append(h[k], value) ELSE <<value>>)
            ELSE h[x]]

\* http.Header.Get: the first value under the canonical key.
HeaderGet(h, key) ==
    LET k == CanonicalMIMEHeaderKey(key)
    IN  IF k \in DOMAIN h /\ Len(h[k]) > 0 THEN h[k][1] ELSE ""

DefaultHeaders(contentType) == [k \in {"Content-Type"} |-> <<contentType>>]

NilHeaders       == [ref |-> "nil", map |-> EmptyHeader]
FreshHeaders(h)  == [ref |-> "fresh", map |-> h]

\* ------------------------------------------------- identifiers and paths
\* Identifiers a caller may pass: plain, holding a "/", holding a bad escape.
IDChoices == {<<"d1">>, <<"a", "/", "b">>, <<BadEscape>>}

\* string(n) on an int: the UTF-8 text of the rune n, not its decimal form.
RuneString(n) == IF n = 0 THEN "<NUL>" ELSE IF n = 20 THEN "<DC4>" ELSE "<RUNE>"
LimitChoices == {<<20, 0>>, <<0, 20>>}

\* --------------------------------------------------------- response bodies
JSONBody(ok, t, e, r, d) ==
    [kind |-> "json", ok |-> ok, time |-> t, error |-> e, message |-> e,
     response |-> r, dictionaries |-> d]
EmptyBodyText == [kind |-> "empty", ok |-> FALSE, time |-> 0, error |-> "", message |-> "",
                  response |-> "absent", dictionaries |-> FALSE]
MalformedBody == [EmptyBodyText EXCEPT !.kind = "malformed"]
analyseResponseBody == JSONBody(TRUE, 1, "", "object", FALSE)
errorResponseBody   == JSONBody(FALSE, 0, "", "empty", FALSE)

Bodies ==
    { analyseResponseBody, errorResponseBody, EmptyBodyText, MalformedBody,
      JSONBody(TRUE, 1, "", "absent", TRUE),      \* the GET /entities/ shape
      JSONBody(TRUE, 1, "", "null", FALSE),
      JSONBody(TRUE, 1, "", "string", FALSE),     \* "response" of the wrong type
      JSONBody(FALSE, 1, "E", "object", FALSE) }

\* 200, another 2xx code (201 Created) and the tests' 503.
Statuses == {StatusOK, 201, StatusServiceUnavailable}

\* What a RoundTripper may answer with: failAt = k > 0 makes the k-th Read of
\* the body fail (k = 1 is the tests' faultyReader).
Responses ==
    [StatusCode : {StatusOK}, body : Bodies, failAt : {0}]
    \cup [StatusCode : Statuses \ {StatusOK},
          body : {analyseResponseBody, errorResponseBody}, failAt : {0}]
    \cup [StatusCode : {StatusOK, StatusServiceUnavailable},
          body : {analyseResponseBody}, failAt : 1..BodyChunks]

NoResp == [got |-> FALSE, StatusCode |-> 0, Header |-> EmptyHeader,
           body |-> EmptyBodyText, failAt |-> 0]
MkResp(r) == [got |-> TRUE, StatusCode |-> r.StatusCode,
              Header |-> DefaultHeaders(contentTypeJSON),
              body |-> r.body, failAt |-> r.failAt]

\* ioutil.ReadAll(resp.Body): Read until EOF or the first error.
ReadAll(r) ==
    IF r.failAt = 0
    THEN [err |-> FALSE, consumed |-> BodyChunks, eof |-> TRUE, data |-> r.body]
    ELSE [err |-> TRUE, consumed |-> r.failAt - 1, eof |-> FALSE, data |-> EmptyBodyText]

\* ---------------------------------------------------------- result targets
TypedKinds == {"Analysis", "Account", "Dictionary", "DictionaryEntry",
               "DictionaryEntryList", "Category", "CategoryList"}
TargetKinds == TypedKinds \cup {"EmptyResponse"}

\* A fresh result model: no envelope back-reference, zero domain fields.
NewTarget(kind) == [kind |-> kind, HTTPResponse |-> "nil", data |-> "zero"]

\* Mutant: no implementation stores the envelope.
SetHTTPResponseDropped(t) == t

\* setHTTPResponse of each Response implementation; the envelope it is given
\* is the one object the dispatch allocates (the variable httpResponse).
SetHTTPResponse(t) ==
    IF t.kind = "EmptyResponse" THEN t ELSE [t EXCEPT !.HTTPResponse = "envelope"]

\* ---------------------------------------------------------------- envelope
NoEnvelope == [alloc |-> FALSE, Status |-> 0, Headers |-> EmptyHeader,
               Body |-> EmptyBodyText, Time |-> 0, Response |-> "nil",
               Dictionaries |-> FALSE, Ok |-> FALSE, Error |-> "", Message |-> ""]

\* &HTTPResponse{Status: ..., Headers: ..., Body: ..., Response: response}
NewHTTPResponse(r, data) ==
    [NoEnvelope EXCEPT !.alloc = TRUE, !.Status = r.StatusCode, !.Headers = r.Header,
                       !.Body = data, !.Response = "target"]

\* Mutant: a body without a "response" object is a decoding error.
ParseBodyRequiresResponse(env, t) ==
    LET b == env.Body
    IN  IF b.kind # "json" THEN [err |-> TRUE, env |-> env, target |-> t]
        ELSE [err |-> (b.response \in {"string", "absent", "null"}),
              env |-> [env EXCEPT !.Ok = b.ok, !.Time = b.time, !.Error = b.error,
                                  !.Message = b.message,
                                  !.Dictionaries = b.dictionaries,
                                  !.Response = IF b.response = "null" THEN "nil" ELSE @],
              target |-> IF b.response = "object" /\ env.Response = "target"
                            /\ t.kind # "EmptyResponse"
                         THEN [t EXCEPT !.data = "decoded"] ELSE t]

\* Mutant: decoding the body also overwrites the target's back-reference.
ParseBodyClobbers(env, t) ==
    LET b == env.Body
    IN  IF b.kind # "json" THEN [err |-> TRUE, env |-> env, target |-> t]
        ELSE [err |-> (b.response = "string"),
              env |-> [env EXCEPT !.Ok = b.ok, !.Time = b.time, !.Error = b.error,
                                  !.Message = b.message,
                                  !.Dictionaries = b.dictionaries,
                                  !.Response = IF b.response = "null" THEN "nil" ELSE @],
              target |-> IF b.response = "object" /\ env.Response = "target"
                            /\ t.kind # "EmptyResponse"
                         THEN [t EXCEPT !.data = "decoded", !.HTTPResponse = "nil"]
                         ELSE t]

\* HTTPResponse.ParseBody: json.Unmarshal(r.Body, r). A syntax error changes
\* nothing; a value of the wrong type is skipped, the rest is decoded and the
\* error reported; "response": null clears the Response interface field; an
\* object is decoded into the value the Response field points to.
ParseBody(env, t) ==
    LET b == env.Body
    IN  IF b.kind # "json" THEN [err |-> TRUE, env |-> env, target |-> t]
        ELSE [err |-> (b.response = "string"),
              env |-> [env EXCEPT !.Ok = b.ok, !.Time = b.time, !.Error = b.error,
                                  !.Message = b.message,
                                  !.Dictionaries = b.dictionaries,
                                  !.Response = IF b.response = "null" THEN "nil" ELSE @],
              target |-> IF b.response = "object" /\ env.Response = "target"
                            /\ t.kind # "EmptyResponse"
                         THEN [t EXCEPT !.data = "decoded"] ELSE t]

\* Mutant: any 2xx status is taken for a success.
StatusNot2xx(code) == code < 200 \/ code > 299

\* resp.StatusCode != http.StatusOK
StatusNotOK(code) == code # StatusOK

\* =================================================================== state
VARIABLES
    client,        \* the Client struct, set by NewCustomClient
    calls,         \* calls made in a row with the map of the call before
    pc,            \* where the running call stands
    op,            \* the method that was called
    args,          \* doRequest's arguments: path, method, headers, body
    params,        \* the Params map the caller passed to this call
    given,         \* the arguments of Analyze, AnalyzeText, AnalyzeURL on entry
    hdrs,          \* the http.Header map the caller passed to this call
    u,             \* the parsed request URL
    bodyStr,       \* the encoded request body
    req,           \* the *http.Request
    roundTrips,    \* RoundTrip invocations made by this call
    resp,          \* the *http.Response client.Do returned
    stream,        \* resp.Body and the bodies of redirect responses
    respBody,      \* the bytes ReadAll returned
    httpResponse,  \* the *HTTPResponse the dispatch allocates
    target,        \* the result model passed as `response`
    dret,          \* what doRequest returned
    ret,           \* what the called method returned
    cur,           \* the caller whose call the variables above hold
    parked,        \* the calls of the other callers, each where it stands
    ptest          \* a Params map a program works on, with what it did to it

vars == <<client, calls, pc, op, args, params, given, hdrs, u, bodyStr, req, roundTrips,
          resp, stream, respBody, httpResponse, target, dret, ret, cur, parked, ptest>>

NoArgs   == [path |-> <<>>, method |-> "", headers |-> NilHeaders, body |-> NilBody]
NoReq    == [made |-> FALSE, Method |-> "", URL |-> UriFail, Header |-> EmptyHeader,
             Body |-> <<>>]
NoStream == [handed |-> 0, closed |-> 0, deferred |-> FALSE, consumed |-> 0,
             eof |-> FALSE]
NoRet    == [result |-> "nil", err |-> NilErr]
NoGiven  == [str |-> "", params |-> NilParams]

\* A program that holds Params map p and has called none of its methods yet.
\* m is the map, start the map it began with, prev the map before the last
\* call, hist the calls made ([op, key, value]), enc what the last Encode
\* returned, panicked whether the last call panicked.
NoEncoding == [err |-> FALSE, str |-> <<>>]
NewRun(p) == [m |-> p, start |-> p, prev |-> p, hist |-> <<>>, enc |-> NoEncoding,
              panicked |-> FALSE]

\* Goroutines that call methods of the one client.
Callers == {1, 2}

\* A caller that has not called anything yet.
IdleCall ==
    [calls |-> 0, pc |-> "idle", op |-> "none", args |-> NoArgs, params |-> NilParams,
     given |-> NoGiven, hdrs |-> EmptyHeader, u |-> UriFail, bodyStr |-> <<>>,
     req |-> NoReq, roundTrips |-> 0, resp |-> NoResp, stream |-> NoStream,
     respBody |-> EmptyBodyText, httpResponse |-> NoEnvelope,
     target |-> NewTarget("EmptyResponse"), dret |-> NoRet, ret |-> NoRet]

\* NewCustomClient(apiKey, useCompression, useEncryption, endpoint, secureEndpoint, transport)
NewCustomClient(apiKey, useCompression, useEncryption, endpoint, secureEndpoint) ==
    [apiKey |-> apiKey, useCompression |-> useCompression,
     UseEncryption |-> useEncryption, Endpoint |-> endpoint,
     SecureEndpoint |-> secureEndpoint]

\* The clients of the package's tests, one whose unselected endpoint is the
\* invalid one, and one whose plaintext endpoint is "".
Clients ==
    { NewCustomClient(testAPIKey, TRUE, TRUE, DefaultEndpoint, DefaultSecureEndpoint),
      NewCustomClient(testAPIKey, TRUE, FALSE, DefaultEndpoint, InvalidEndpoint),
      NewCustomClient(testAPIKey, TRUE, FALSE, InvalidEndpoint, DefaultSecureEndpoint),
      NewCustomClient(testAPIKey, TRUE, TRUE, DefaultEndpoint, InvalidEndpoint),
      NewCustomClient(testAPIKey, TRUE, FALSE, EmptyEndpoint, DefaultSecureEndpoint) }

InitCalls ==
    /\ client \in Clients
    /\ calls = 0
    /\ pc = "idle"
    /\ op = "none"
    /\ args = NoArgs
    /\ params = NilParams
    /\ given = NoGiven
    /\ hdrs = EmptyHeader
    /\ u = UriFail
    /\ bodyStr = <<>>
    /\ req = NoReq
    /\ roundTrips = 0
    /\ resp = NoResp
    /\ stream = NoStream
    /\ respBody = EmptyBodyText
    /\ httpResponse = NoEnvelope
    /\ target = NewTarget("EmptyResponse")
    /\ dret = NoRet
    /\ ret = NoRet
    /\ cur = 1
    /\ parked = [c \in Callers |-> IdleCall]

Init == InitCalls /\ ptest = NewRun(NilParams)

\* ------------------------------------------------------------- call frames
\* The methods that hand their own result model back instead of the envelope.
TypedOps == {"Analyze", "AnalyzeText", "AnalyzeURL", "GetAccount", "GetDictionary",
             "GetDictionaryEntries", "GetDictionaryEntry", "GetClassifierCategories",
             "GetClassifierCategory"}

\* Mutant: the typed methods hand their model back with the error.
FacadeReturnBoth(o, env, err) ==
    IF o \in {"Analyze", "AnalyzeText", "AnalyzeURL", "GetAccount", "GetDictionary",
              "GetDictionaryEntries", "GetDictionaryEntry", "GetClassifierCategories",
              "GetClassifierCategory"}
    THEN [result |-> "target", err |-> err]
    ELSE [result |-> env, err |-> err]

\* `if _, err := c.doRequest(...); err != nil { return nil, err }; return x, nil`
\* for the typed methods, `return c.doRequest(...)` for the others.
FacadeReturn(o, env, err) ==
    IF o \in TypedOps
    THEN (IF err # NilErr THEN [result |-> "nil", err |-> err]
                          ELSE [result |-> "target", err |-> NilErr])
    ELSE [result |-> env, err |-> err]

CanCall == pc = "idle"

\* A call with maps made for it starts a new row of calls; a call with the
\* map the call before it left behind goes on with the row, which is MaxCalls
\* calls long at most.
Counted(reuse) ==
    IF reuse THEN calls < MaxCalls /\ calls' = calls + 1
             ELSE calls' = 1

\* A method was entered: fresh locals for the new call.
Enter(o, p, h, kind) ==
    /\ CanCall
    /\ op' = o
    /\ params' = p
    /\ hdrs' = h
    /\ target' = NewTarget(kind)
    /\ u' = UriFail
    /\ bodyStr' = <<>>
    /\ req' = NoReq
    /\ roundTrips' = 0
    /\ resp' = NoResp
    /\ stream' = NoStream
    /\ respBody' = EmptyBodyText
    /\ httpResponse' = NoEnvelope
    /\ UNCHANGED <<client, cur, parked, ptest>>

\* The method calls c.doRequest(path, method, headers, body, response).
Dispatch(o, p, h, path, method, headers, body, kind) ==
    /\ Enter(o, p, h, kind)
    /\ args' = [path |-> path, method |-> method, headers |-> headers, body |-> body]
    /\ pc' = "uri"
    /\ dret' = NoRet
    /\ ret' = NoRet

\* The method returns before it reaches doRequest.
Reject(o, p, err) ==
    /\ Enter(o, p, EmptyHeader, "Analysis")
    /\ args' = NoArgs
    /\ pc' = "done"
    /\ dret' = NoRet
    /\ ret' = [result |-> "nil", err |-> err]

\* The method panics (assignment to an entry in a nil map).
Panic(o, p) ==
    /\ Enter(o, p, EmptyHeader, "Analysis")
    /\ args' = NoArgs
    /\ pc' = "panic"
    /\ dret' = NoRet
    /\ ret' = NoRet

\* Mutant: no deferred Close.
ReturnNoClose(env, err, st) ==
    /\ pc' = "done"
    /\ dret' = [result |-> env, err |-> err]
    /\ ret' = IF op \in {"Analyze", "AnalyzeText", "AnalyzeURL", "GetAccount",
                         "GetDictionary", "GetDictionaryEntries", "GetDictionaryEntry",
                         "GetClassifierCategories", "GetClassifierCategory"}
              THEN (IF err # NilErr THEN [result |-> "nil", err |-> err]
                                    ELSE [result |-> "target", err |-> NilErr])
              ELSE [result |-> env, err |-> err]
    /\ stream' = st

\* doRequest returns: the deferred resp.Body.Close() runs if it was registered,
\* and the calling method returns what it makes of the pair.
Return(env, err, st) ==
    /\ pc' = "done"
    /\ dret' = [result |-> env, err |-> err]
    /\ ret' = FacadeReturn(op, env, err)
    /\ stream' = IF st.deferred THEN [st EXCEPT !.closed = st.handed] ELSE st

\* ================================================================ doRequest
\* What a step of doRequest leaves alone.
locals   == <<calls, op, args, params, given, cur, parked, ptest>>
frame    == <<client, locals>>
early    == <<roundTrips, resp, respBody, httpResponse, target>>

\* Mutant: the request is constructed before the body is encoded.
NextStageSwapped(stage) ==
    CASE stage = "uri"     -> "newreq"
      [] stage = "newreq"  -> "encode"
      [] stage = "encode"  -> "headers"
      [] stage = "headers" -> "do"
      [] stage = "do"      -> "read"
      [] stage = "read"    -> "build"
      [] stage = "build"   -> "status"
      [] stage = "status"  -> "parse"
      [] stage = "parse"   -> "ok"

\* The order of doRequest's statements: the stage that follows a stage that
\* did not return.
NextStage(stage) ==
    CASE stage = "uri"     -> "encode"
      [] stage = "encode"  -> "newreq"
      [] stage = "newreq"  -> "headers"
      [] stage = "headers" -> "do"
      [] stage = "do"      -> "read"
      [] stage = "read"    -> "build"
      [] stage = "build"   -> "status"
      [] stage = "status"  -> "parse"
      [] stage = "parse"   -> "ok"

\* endpointURL := c.Endpoint; if c.UseEncryption { endpointURL = c.SecureEndpoint }
EndpointURL(c) == IF c.UseEncryption THEN c.SecureEndpoint ELSE c.Endpoint

\* Mutant: the selected endpoint is stored in the client's Endpoint field.
SelectEndpointInPlace(c) ==
    [client |-> [c EXCEPT !.Endpoint = EndpointURL(c)], endpointURL |-> EndpointURL(c)]

\* The endpoint selection writes the local endpointURL only: the client it
\* leaves and the value of the local.
SelectEndpoint(c) == [client |-> c, endpointURL |-> EndpointURL(c)]

\* u, err := url.ParseRequestURI(endpointURL + path)
ParseURI ==
    /\ pc = "uri"
    /\ client' = SelectEndpoint(client).client
    /\ LET parsed == ParseRequestURI(SelectEndpoint(client).endpointURL \o args.path)
       IN  IF parsed.err
           THEN Return("nil", ErrURI, stream) /\ UNCHANGED u
           ELSE u' = parsed /\ pc' = NextStage("uri") /\ UNCHANGED <<stream, dret, ret>>
    /\ UNCHANGED <<locals, early, hdrs, bodyStr, req>>

\* bodyStr := ""; if body != nil { bodyStr, err = body.Encode() }
EncodeBody ==
    /\ pc = "encode"
    /\ IF args.body.kind = "nil"
       THEN bodyStr' = <<>> /\ pc' = NextStage("encode") /\ UNCHANGED <<stream, dret, ret>>
       ELSE LET e == Encode(args.body)
            IN  IF e.err
                THEN Return("nil", ErrEncode, stream) /\ UNCHANGED bodyStr
                ELSE bodyStr' = e.str /\ pc' = NextStage("encode") /\ UNCHANGED <<stream, dret, ret>>
    /\ UNCHANGED <<frame, early, hdrs, u, req>>

\* net/http validMethod: a non-empty token; NewRequest reads "" as GET.
ValidMethod(m) == m \in {"", MethodGet, MethodPost, MethodPut, MethodDelete}

\* req, err := http.NewRequest(method, u.String(), bytes.NewBufferString(bodyStr))
NewRequest ==
    /\ pc = "newreq"
    /\ IF ~ValidMethod(args.method)
       THEN Return("nil", ErrNewRequest, stream) /\ UNCHANGED req
       ELSE /\ req' = [made |-> TRUE,
                       Method |-> IF args.method = "" THEN MethodGet ELSE args.method,
                       URL |-> [u EXCEPT !.Path = EscapedPath(u.Path)],
                       Header |-> EmptyHeader,
                       Body |-> bodyStr]
            /\ pc' = NextStage("newreq")
            /\ UNCHANGED <<stream, dret, ret>>
    /\ UNCHANGED <<frame, early, hdrs, u, bodyStr>>

\* if headers != nil { req.Header = headers }; req.Header.Add(apiKeyHeader, c.apiKey)
\* req.Header and a caller's map are one map: the Add writes to both.
SetHeaders ==
    /\ pc = "headers"
    /\ LET base == IF args.headers.ref = "nil" THEN req.Header
                   ELSE IF args.headers.ref = "caller" THEN hdrs
                   ELSE args.headers.map
           h    == HeaderAdd(base, apiKeyHeader, client.apiKey)
       IN  /\ req' = [req EXCEPT !.Header = h]
           /\ hdrs' = IF args.headers.ref = "caller" THEN h ELSE hdrs
    /\ pc' = NextStage("headers")
    /\ UNCHANGED <<frame, early, u, bodyStr, stream, dret, ret>>

\* Mutant: a failed transport call is tried a second time.
RoundTripRetry ==
    /\ pc = "do"
    /\ roundTrips' = roundTrips + 1
    /\ \/ IF roundTrips = 0
          THEN UNCHANGED <<pc, dret, ret, resp, stream>>
          ELSE Return("nil", ErrExecute, stream) /\ UNCHANGED resp
       \/ /\ roundTrips < MaxHops
          /\ stream' = [stream EXCEPT !.handed = @ + 1, !.closed = @ + 1]
          /\ UNCHANGED <<pc, dret, ret, resp>>
       \/ \E r \in Responses :
             /\ resp' = MkResp(r)
             /\ stream' = [stream EXCEPT !.handed = @ + 1, !.deferred = TRUE]
             /\ pc' = NextStage("do")
             /\ UNCHANGED <<dret, ret>>
    /\ UNCHANGED <<frame, hdrs, u, bodyStr, req, respBody, httpResponse, target>>

\* resp, err := client.Do(req): one RoundTrip of the transport. The transport
\* fails, or answers with a redirect that http.Client follows after closing
\* the body of the redirect response, or answers with the final response.
\* (http.Client gives up after 10 requests; the transport of the model
\* redirects at most MaxHops times, so that limit is never met.)
RoundTrip ==
    /\ pc = "do"
    /\ roundTrips' = roundTrips + 1
    /\ \/ /\ Return("nil", ErrExecute, stream)
          /\ UNCHANGED resp
       \/ /\ roundTrips < MaxHops
          /\ stream' = [stream EXCEPT !.handed = @ + 1, !.closed = @ + 1]
          /\ UNCHANGED <<pc, dret, ret, resp>>
       \/ \E r \in Responses :
             /\ resp' = MkResp(r)
             /\ stream' = [stream EXCEPT !.handed = @ + 1, !.deferred = TRUE]
             /\ pc' = NextStage("do")
             /\ UNCHANGED <<dret, ret>>
    /\ UNCHANGED <<frame, hdrs, u, bodyStr, req, respBody, httpResponse, target>>

\* respBody, err := ioutil.ReadAll(resp.Body)
ReadBody ==
    /\ pc = "read"
    /\ LET r  == ReadAll(resp)
           st == [stream EXCEPT !.consumed = r.consumed, !.eof = r.eof]
       IN  IF r.err
           THEN Return("nil", ErrRead, st) /\ UNCHANGED respBody
           ELSE /\ respBody' = r.data
                /\ stream' = st
                /\ pc' = NextStage("read")
                /\ UNCHANGED <<dret, ret>>
    /\ UNCHANGED <<frame, hdrs, u, bodyStr, req, roundTrips, resp, httpResponse, target>>

\* httpResponse := &HTTPResponse{...}; response.setHTTPResponse(httpResponse)
BuildResponse ==
    /\ pc = "build"
    /\ httpResponse' = NewHTTPResponse(resp, respBody)
    /\ target' = SetHTTPResponse(target)
    /\ pc' = NextStage("build")
    /\ UNCHANGED <<frame, hdrs, u, bodyStr, req, roundTrips, resp, respBody, stream,
                   dret, ret>>

\* if resp.StatusCode != http.StatusOK { return nil, ... }
CheckStatus ==
    /\ pc = "status"
    /\ IF StatusNotOK(resp.StatusCode)
       THEN Return("nil", ErrStatus(resp.StatusCode), stream)
       ELSE pc' = NextStage("status") /\ UNCHANGED <<stream, dret, ret>>
    /\ UNCHANGED <<frame, early, hdrs, u, bodyStr, req>>

\* err = httpResponse.ParseBody()
Parse ==
    /\ pc = "parse"
    /\ LET r == ParseBody(httpResponse, target)
       IN  /\ httpResponse' = r.env
           /\ target' = r.target
           /\ IF r.err
              THEN Return("nil", ErrParse, stream)
              ELSE pc' = NextStage("parse") /\ UNCHANGED <<stream, dret, ret>>
    /\ UNCHANGED <<frame, hdrs, u, bodyStr, req, roundTrips, resp, respBody>>

\* Mutant: the decoded 'ok' flag is not looked at.
OkIgnored(env) == FALSE

\* !httpResponse.Ok
OkIsFalse(env) == ~env.Ok

\* if !httpResponse.Ok { return nil, ... }; return httpResponse, nil
CheckOk ==
    /\ pc = "ok"
    /\ IF OkIsFalse(httpResponse)
       THEN Return("nil", ErrNotOk, stream)
       ELSE Return("envelope", NilErr, stream)
    /\ UNCHANGED <<frame, early, hdrs, u, bodyStr, req>>

\* =================================================================== facade
ParamsChoices ==
    {NilParams} \cup
    {MkParams(f) : f \in UNION {[K -> ValueChoices] : K \in SUBSET ParamKeys}}

\* Mutant: only the "neither" half of the check.
TextURLNeither(p) == ParamsGet(p, "text") = "" /\ ParamsGet(p, "url") = ""

\* (text == "" && url == "") || (text != "" && url != "")
TextURLInvalid(p) ==
    \/ ParamsGet(p, "text") = "" /\ ParamsGet(p, "url") = ""
    \/ ParamsGet(p, "text") # "" /\ ParamsGet(p, "url") # ""

\* Mutant: the extractors check is dropped.
ExtractorsUnchecked(p) == FALSE

\* params.Get("extractors") == ""
ExtractorsMissing(p) == ParamsGet(p, "extractors") = ""

\* The body of Client.Analyze, entered as method o with params p.
AnalyzeCall(o, p) ==
    IF TextURLInvalid(p) THEN Reject(o, p, ErrValidateOne)
    ELSE IF ExtractorsMissing(p) THEN Reject(o, p, ErrValidateExt)
    ELSE Dispatch(o, p, EmptyHeader, <<"/">>, MethodPost,
                  FreshHeaders(DefaultHeaders(contentTypeURL)), ParamsBody(p), "Analysis")

\* The caller passes a new map or the one of its previous call.
Analyze ==
    \E p \in ParamsChoices \cup {params} :
        /\ AnalyzeCall("Analyze", p)
        /\ given' = [str |-> "", params |-> p]
        /\ Counted(p \notin ParamsChoices)

\* params.Set("text", text); return c.Analyze(params)
AnalyzeText ==
    \E text \in {"", "t"}, p \in ParamsChoices \cup {params} :
        /\ IF p.nil THEN Panic("AnalyzeText", p)
           ELSE AnalyzeCall("AnalyzeText", ParamsSet(p, "text", text))
        /\ given' = [str |-> text, params |-> p]
        /\ Counted(p \notin ParamsChoices)

\* params.Set("url", urlStr); return c.Analyze(params)
AnalyzeURL ==
    \E urlStr \in {"", "w"}, p \in ParamsChoices \cup {params} :
        /\ IF p.nil THEN Panic("AnalyzeURL", p)
           ELSE AnalyzeCall("AnalyzeURL", ParamsSet(p, "url", urlStr))
        /\ given' = [str |-> urlStr, params |-> p]
        /\ Counted(p \notin ParamsChoices)

\* A method that takes no Params and no header map from its caller.
Plain(o, path, method, headers, body, kind) ==
    /\ Dispatch(o, NilParams, EmptyHeader, path, method, headers, body, kind)
    /\ given' = NoGiven
    /\ Counted(FALSE)

JSONHeaders == FreshHeaders(DefaultHeaders(contentTypeJSON))
CSVHeaders  == FreshHeaders(DefaultHeaders(contentTypeCSV))

\* Params{"limit": {string(limit)}, "offset": {string(offset)}}
PageParams(limit, offset) ==
    MkParams([k \in {"limit", "offset"} |->
                 IF k = "limit" THEN <<RuneString(limit)>> ELSE <<RuneString(offset)>>])

GetAccount ==
    Plain("GetAccount", <<"/", "account", "/">>, MethodGet, NilHeaders, NilBody, "Account")

CreateDictionary ==
    \E id \in IDChoices :
        Plain("CreateDictionary", <<"/", "entities", "/">> \o id, MethodPut,
              JSONHeaders, DictBody(id), "EmptyResponse")

GetDictionaries ==
    Plain("GetDictionaries", <<"/", "entities", "/">>, MethodGet, NilHeaders, NilBody,
          "EmptyResponse")

GetDictionary ==
    \E id \in IDChoices :
        Plain("GetDictionary", <<"/", "entities", "/">> \o id, MethodGet,
              NilHeaders, NilBody, "Dictionary")

DeleteDictionary ==
    \E id \in IDChoices :
        Plain("DeleteDictionary", <<"/", "entities", "/">> \o id, MethodDelete,
              NilHeaders, NilBody, "EmptyResponse")

\* The body of Client.AddDictionaryEntries, entered as method o.
AddEntriesCall(o, id, e) ==
    Plain(o, <<"/", "entities", "/">> \o id \o <<"/">>, MethodPost,
          JSONHeaders, EntriesBody(e), "EmptyResponse")

AddDictionaryEntries ==
    \E id \in IDChoices, e \in {<<>>, <<"e1", "e2">>} :
        AddEntriesCall("AddDictionaryEntries", id, e)

\* return c.AddDictionaryEntries(ID, []DictionaryEntry{*e})
AddDictionaryEntry ==
    \E id \in IDChoices : AddEntriesCall("AddDictionaryEntry", id, <<"e1">>)

GetDictionaryEntries ==
    \E id \in IDChoices, lo \in LimitChoices :
        Plain("GetDictionaryEntries", <<"/", "entities", "/">> \o id \o <<"/", "_all">>,
              MethodGet, NilHeaders, ParamsBody(PageParams(lo[1], lo[2])),
              "DictionaryEntryList")

GetDictionaryEntry ==
    \E dictID \in IDChoices, entryID \in IDChoices :
        Plain("GetDictionaryEntry",
              <<"/", "entities", "/">> \o dictID \o <<"/">> \o entryID,
              MethodGet, NilHeaders, NilBody, "DictionaryEntry")

DeleteDictionaryEntry ==
    \E dictID \in IDChoices, entryID \in IDChoices :
        Plain("DeleteDictionaryEntry",
              <<"/", "entities", "/">> \o dictID \o <<"/">> \o entryID,
              MethodDelete, NilHeaders, NilBody, "EmptyResponse")

CreateClassifierFromJSON ==
    \E id \in IDChoices :
        Plain("CreateClassifierFromJSON", <<"/", "categories", "/">> \o id, MethodPut,
              JSONHeaders, RawBody("[json]"), "EmptyResponse")

CreateClassifierFromCSV ==
    \E id \in IDChoices :
        Plain("CreateClassifierFromCSV", <<"/", "categories", "/">> \o id, MethodPut,
              CSVHeaders, RawBody("c,s,v"), "EmptyResponse")

DeleteClassifier ==
    \E id \in IDChoices :
        Plain("DeleteClassifier", <<"/", "categories", "/">> \o id, MethodDelete,
              NilHeaders, NilBody, "EmptyResponse")

GetClassifierCategories ==
    \E id \in IDChoices, lo \in LimitChoices :
        Plain("GetClassifierCategories",
              <<"/", "categories", "/">> \o id \o <<"/", "_all">>,
              MethodGet, NilHeaders, ParamsBody(PageParams(lo[1], lo[2])), "CategoryList")

GetClassifierCategory ==
    \E clID \in IDChoices, catID \in IDChoices :
        Plain("GetClassifierCategory",
              <<"/", "categories", "/">> \o clID \o <<"/">> \o catID,
              MethodGet, NilHeaders, NilBody, "Category")

DeleteClassifierCategory ==
    \E clID \in IDChoices, catID \in IDChoices :
        Plain("DeleteClassifierCategory",
              <<"/", "categories", "/">> \o clID \o <<"/">> \o catID,
              MethodDelete, NilHeaders, NilBody, "EmptyResponse")

\* Header maps a caller of doRequest may build: with or without a value of its
\* own under the API-key header, set through Header.Set (canonical spelling) or
\* written as a map literal under the constant's spelling.
HeaderChoices ==
    { EmptyHeader,
      DefaultHeaders(contentTypeJSON),
      [k \in {"X-Textrazor-Key"} |-> <<"other">>],
      [k \in {"X-TextRazor-Key"} |-> <<"other">>] }

\* A direct call of c.doRequest, as the package's tests make it: any method,
\* header map, body and result target.
DoRequest ==
    \E mb \in {<<MethodPost, NilBody>>, <<InvalidMethod, NilBody>>,
               <<MethodPost, FaultyBody>>, <<InvalidMethod, FaultyBody>>},
       kh \in {<<kind, "nil", EmptyHeader>> : kind \in TargetKinds}
              \cup {<<"Analysis", "caller", x>> : x \in HeaderChoices \cup {hdrs}} :
        /\ Dispatch("doRequest", NilParams, kh[3], <<"/">>, mb[1],
                    [ref |-> kh[2], map |-> kh[3]], mb[2], kh[1])
        /\ given' = NoGiven
        /\ Counted(kh[3] \notin HeaderChoices)

\* The caller has the result of its call and goes on.
Finish ==
    /\ pc = "done"
    /\ pc' = "idle"
    /\ op' = "none"
    /\ args' = NoArgs
    /\ u' = UriFail
    /\ bodyStr' = <<>>
    /\ req' = NoReq
    /\ roundTrips' = 0
    /\ resp' = NoResp
    /\ stream' = NoStream
    /\ respBody' = EmptyBodyText
    /\ httpResponse' = NoEnvelope
    /\ target' = NewTarget("EmptyResponse")
    /\ dret' = NoRet
    /\ ret' = NoRet
    /\ given' = NoGiven
    /\ UNCHANGED <<client, calls, params, hdrs, cur, parked, ptest>>

Next ==
    \/ Analyze \/ AnalyzeText \/ AnalyzeURL \/ GetAccount
    \/ CreateDictionary \/ GetDictionaries \/ GetDictionary \/ DeleteDictionary
    \/ AddDictionaryEntries \/ AddDictionaryEntry \/ GetDictionaryEntries
    \/ GetDictionaryEntry \/ DeleteDictionaryEntry
    \/ CreateClassifierFromJSON \/ CreateClassifierFromCSV \/ DeleteClassifier
    \/ GetClassifierCategories \/ GetClassifierCategory \/ DeleteClassifierCategory
    \/ DoRequest
    \/ ParseURI \/ EncodeBody \/ NewRequest \/ SetHeaders \/ RoundTrip
    \/ ReadBody \/ BuildResponse \/ CheckStatus \/ Parse \/ CheckOk
    \/ Finish

Spec == Init /\ [][Next]_vars

\* ======================================================= concurrent callers
\* The call of the running caller, as a record.
ThisCall ==
    [calls |-> calls, pc |-> pc, op |-> op, args |-> args, params |-> params,
     given |-> given, hdrs |-> hdrs, u |-> u, bodyStr |-> bodyStr, req |-> req,
     roundTrips |-> roundTrips, resp |-> resp, stream |-> stream,
     respBody |-> respBody, httpResponse |-> httpResponse, target |-> target,
     dret |-> dret, ret |-> ret]

\* The scheduler stops the running caller between two statements and lets
\* another caller run: each call has its own arguments, locals and result
\* target; the client is the one thing the callers share.
Switch ==
    \E d \in Callers \ {cur} :
        /\ cur' = d
        /\ parked' = [parked EXCEPT ![cur] = ThisCall, ![d] = IdleCall]
        /\ calls' = parked[d].calls
        /\ pc' = parked[d].pc
        /\ op' = parked[d].op
        /\ args' = parked[d].args
        /\ params' = parked[d].params
        /\ given' = parked[d].given
        /\ hdrs' = parked[d].hdrs
        /\ u' = parked[d].u
        /\ bodyStr' = parked[d].bodyStr
        /\ req' = parked[d].req
        /\ roundTrips' = parked[d].roundTrips
        /\ resp' = parked[d].resp
        /\ stream' = parked[d].stream
        /\ respBody' = parked[d].respBody
        /\ httpResponse' = parked[d].httpResponse
        /\ target' = parked[d].target
        /\ dret' = parked[d].dret
        /\ ret' = parked[d].ret
        /\ UNCHANGED <<client, ptest>>

\* Each caller makes one call: GetAccount or CreateDictionary.
FirstGetAccount       == calls = 0 /\ GetAccount
FirstCreateDictionary == calls = 0 /\ CreateDictionary

\* The answers of the transport while callers interleave: a failure, or one of
\* the responses of the package's tests, without redirects.
InterleavedResponses ==
    {r \in Responses : r.body \in {analyseResponseBody, errorResponseBody}}
InterleavedRoundTrip ==
    /\ RoundTrip
    /\ pc' # "do"
    /\ resp' \in {NoResp} \cup {MkResp(r) : r \in InterleavedResponses}

InitInterleaved ==
    /\ Init
    /\ client = NewCustomClient(testAPIKey, TRUE, TRUE, DefaultEndpoint, DefaultSecureEndpoint)

NextInterleaved ==
    \/ FirstGetAccount \/ FirstCreateDictionary
    \/ ParseURI \/ EncodeBody \/ NewRequest \/ SetHeaders \/ InterleavedRoundTrip
    \/ ReadBody \/ BuildResponse \/ CheckStatus \/ Parse \/ CheckOk
    \/ Switch

SpecInterleaved == InitInterleaved /\ [][NextInterleaved]_vars

\* ========================================================= Params programs
\* A program calls the methods of one Params map, at most MaxOps times.
TestKeys   == {"extractors", "text"}
TestValues == {"text1", "text2"}
StartMaps  ==
    { NilParams, MkParams(<<>>),
      MkParams([k \in {"extractors"} |-> <<"entities", "entailments">>]) }

callVars == <<client, calls, pc, op, args, params, given, hdrs, u, bodyStr, req,
              roundTrips, resp, stream, respBody, httpResponse, target, dret, ret,
              cur, parked>>

CanOperate == ~ptest.panicked /\ Len(ptest.hist) < MaxOps

\* A write through a method of a map type; on a nil map the assignment panics.
Write(o, key, value, after) ==
    /\ CanOperate
    /\ ptest' = [ptest EXCEPT
                    !.m = IF ptest.m.nil THEN @ ELSE after,
                    !.prev = ptest.m,
                    !.hist = Append(@, [op |-> o, key |-> key, value |-> value]),
                    !.enc = NoEncoding,
                    !.panicked = ptest.m.nil]
    /\ UNCHANGED callVars

\* p.Add(key, value)
Add == \E k \in TestKeys, v \in TestValues : Write("Add", k, v, ParamsAdd(ptest.m, k, v))

\* p.Set(key, value)
Set == \E k \in TestKeys, v \in TestValues : Write("Set", k, v, ParamsSet(ptest.m, k, v))

\* p.Del(key): the built-in delete, a no-op on a nil map.
Del ==
    \E k \in TestKeys :
        /\ CanOperate
        /\ ptest' = [ptest EXCEPT
                        !.m = ParamsDel(ptest.m, k),
                        !.prev = ptest.m,
                        !.hist = Append(@, [op |-> "Del", key |-> k, value |-> ""]),
                        !.enc = NoEncoding]
        /\ UNCHANGED callVars

\* p.Encode(), the range over the map yielding the keys in any order.
EncodeParams ==
    \E order \in KeyOrders(ptest.m) :
        /\ CanOperate
        /\ ptest' = [ptest EXCEPT
                        !.prev = ptest.m,
                        !.hist = Append(@, [op |-> "Encode", key |-> "", value |-> ""]),
                        !.enc = ParamsEncodeIter(ptest.m, order)]
        /\ UNCHANGED callVars

InitParams ==
    /\ InitCalls
    /\ client = NewCustomClient(testAPIKey, TRUE, TRUE, DefaultEndpoint, DefaultSecureEndpoint)
    /\ ptest \in {NewRun(p) : p \in StartMaps}

NextParams == Add \/ Set \/ Del \/ EncodeParams

SpecParams == InitParams /\ [][NextParams]_vars

\* =================================================================== claims
\* The running or finished call went through doRequest.
Dispatched == args.path # <<>>
Returned   == pc = "done"
AnalyzeOps == {"Analyze", "AnalyzeText", "AnalyzeURL"}
\* Client.Analyze is running or has returned with `params` as its argument.
InAnalyze  == op \in AnalyzeOps /\ pc # "panic"

\* What the transport and the server did, read off the response itself.
Exchanged  == resp.got
ReadOK     == resp.got /\ resp.failAt = 0
Status200  == resp.StatusCode = 200
DecodesOK  == resp.body.kind = "json" /\ resp.body.response # "string"
FlagTrue   == resp.body.ok
FullSuccess == Exchanged /\ ReadOK /\ Status200 /\ DecodesOK /\ FlagTrue

ValidationErrs == {ErrValidateOne, ErrValidateExt}
KeySet(p, k)   == ~p.nil /\ k \in DOMAIN p.m

\* C1: a dispatch returns a non-nil envelope and a nil error exactly when the
\* transport call succeeded, the body was read, the status is 200, the body
\* decoded and the decoded 'ok' is true; otherwise a nil envelope and an error.
C1_EnvelopeIffFullSuccess ==
    (Returned /\ Dispatched) =>
        IF FullSuccess
        THEN dret.result = "envelope" /\ httpResponse.alloc /\ dret.err = NilErr
        ELSE dret.result = "nil" /\ dret.err # NilErr

C1_Witness ==
    Returned /\ Dispatched /\ FullSuccess /\ dret.result = "envelope" /\ httpResponse.Ok

\* C2 as stated: every response whose status is not 200 yields an error
\* carrying that status code, and nothing is decoded.
C2_Original ==
    (Returned /\ Exchanged /\ ~Status200) =>
        /\ dret.err = ErrStatus(resp.StatusCode)
        /\ ~httpResponse.Ok /\ httpResponse.Time = 0
        /\ httpResponse.Error = "" /\ httpResponse.Message = ""
        /\ target.data = "zero"

\* C2 as amended: a response whose status is not 200 is never decoded (the
\* envelope's ok, error, message, time and the target's fields stay zero at
\* every step), and the dispatch returns the status error carrying the code
\* when the body was read, the body-read error when the read failed.
C2_NonOKStatusNeverDecoded ==
    (Exchanged /\ ~Status200) =>
        /\ ~httpResponse.Ok /\ httpResponse.Time = 0
        /\ httpResponse.Error = "" /\ httpResponse.Message = ""
        /\ ~httpResponse.Dictionaries
        /\ target.data = "zero"
        /\ pc \notin {"parse", "ok"}
        /\ Returned => /\ dret.result = "nil"
                       /\ dret.err = IF resp.failAt = 0 THEN ErrStatus(resp.StatusCode)
                                                        ELSE ErrRead

C2_Witness ==
    /\ Returned /\ Exchanged /\ resp.StatusCode = 201
    /\ resp.body = analyseResponseBody
    /\ dret.err = ErrStatus(201)

\* C3 as stated, "set" read as "the key is in the map": with both keys in the
\* map or neither, Analyze returns nil and a validation error and the
\* transport is never invoked.
C3_Original ==
    (InAnalyze /\ (KeySet(params, "text") <=> KeySet(params, "url"))) =>
        /\ roundTrips = 0
        /\ Returned => (ret.result = "nil" /\ ret.err \in ValidationErrs)

\* C3 as amended: whenever Get("text") and Get("url") are both empty or both
\* non-empty (the nil map included), Analyze returns at once with nil and the
\* text/url validation error, and the transport is never invoked.
C3_TextURLValidation ==
    (InAnalyze /\ ((ParamsGet(params, "text") = "") <=> (ParamsGet(params, "url") = ""))) =>
        /\ roundTrips = 0
        /\ ~Dispatched
        /\ Returned /\ ret.result = "nil" /\ ret.err = ErrValidateOne

C3_Witness ==
    /\ op = "Analyze" /\ Returned
    /\ ParamsGet(params, "text") # "" /\ ParamsGet(params, "url") # ""
    /\ ParamsGet(params, "extractors") # ""
    /\ ret.err = ErrValidateOne /\ roundTrips = 0

\* C4: with exactly one of 'text'/'url' set (as a key of the map, or as a
\* non-empty first value) and no 'extractors' key, Analyze returns nil and a
\* validation error and the transport is never invoked.
C4_ExtractorsValidation ==
    (/\ InAnalyze
     /\ \/ KeySet(params, "text") # KeySet(params, "url")
        \/ (ParamsGet(params, "text") = "") # (ParamsGet(params, "url") = "")
     /\ ~KeySet(params, "extractors")) =>
        /\ roundTrips = 0
        /\ ~Dispatched
        /\ Returned /\ ret.result = "nil" /\ ret.err \in ValidationErrs

C4_Witness ==
    /\ op = "Analyze" /\ Returned
    /\ ParamsGet(params, "text") # "" /\ ~KeySet(params, "url")
    /\ ~KeySet(params, "extractors")
    /\ ret.err = ErrValidateExt /\ roundTrips = 0

\* An absolute URL: a scheme, a host, and nothing that cannot be parsed.
IsAbsoluteURL(s) ==
    /\ Len(s) > 1 /\ s[1] \in SchemeAtoms /\ s[2] \notin {"/", "?"}
    /\ ~ParseRequestURI(s).err

\* C5: a dispatch whose endpoint+path is not a valid absolute URL, or whose
\* body fails to encode, or whose method is invalid, never invokes RoundTrip.
C5_NoRoundTripOnBadRequest ==
    (/\ Dispatched
     /\ \/ ~IsAbsoluteURL(EndpointURL(client) \o args.path)
        \/ args.body.kind = "faulty"
        \/ args.method = InvalidMethod) =>
        roundTrips = 0

\* C6: the error a dispatch returns is the error of the first stage that fails
\* in the order URI, body encoding, request construction, transport, body
\* read, status, JSON decode, 'ok' flag; the stages' errors are pairwise
\* different kinds.
StageErrs == <<ErrURI, ErrEncode, ErrNewRequest, ErrExecute, ErrRead,
               ErrStatus(resp.StatusCode), ErrParse, ErrNotOk>>
StageFails ==
    << (EndpointURL(client) = InvalidEndpoint) \/ (BadEscape \in Atoms(args.path)),
       args.body.kind = "faulty",
       args.method = InvalidMethod,
       ~Exchanged,
       resp.failAt # 0,
       ~Status200,
       ~DecodesOK,
       ~FlagTrue >>
FirstFailure ==
    IF \E i \in 1..8 : StageFails[i]
    THEN StageErrs[CHOOSE i \in 1..8 : StageFails[i] /\ \A j \in 1..(i-1) : ~StageFails[j]]
    ELSE NilErr

C6_FirstFailingStageWins ==
    /\ (Returned /\ Dispatched) => dret.err = FirstFailure
    /\ \A i, j \in 1..8 : i # j => StageErrs[i].kind # StageErrs[j].kind

C6_Witness ==
    /\ Returned /\ Dispatched
    /\ args.body.kind = "faulty" /\ args.method = InvalidMethod
    /\ dret.err = ErrEncode

\* C7: the request handed to the transport presents the client's API key as
\* the value of the X-TextRazor-Key header, whatever headers the caller gave.
C7_APIKeyNotOverridden ==
    roundTrips > 0 => HeaderGet(req.Header, apiKeyHeader) = client.apiKey

\* The envelope holds the transport metadata of the response.
EnvelopeHoldsMetadata ==
    /\ httpResponse.Status = resp.StatusCode
    /\ httpResponse.Headers = resp.Header
    /\ httpResponse.Body = resp.body

\* C8 as stated: once the body is read and the envelope built, the target of
\* every kind, EmptyResponse included, refers back to the envelope with the
\* status, headers and raw body, before the status check and after a failure.
C8_Original ==
    httpResponse.alloc => (target.HTTPResponse = "envelope" /\ EnvelopeHoldsMetadata)

\* C8 as amended: once the body has been read without error and the envelope
\* built, the target of each of the seven typed kinds refers back to the
\* envelope holding the status code, headers and raw body, from before the
\* status check until the dispatch returns, whether it fails on status, decode
\* or 'ok'; a target of kind EmptyResponse stores no back-reference at all.
C8_TypedTargetsBound ==
    /\ httpResponse.alloc =>
          /\ EnvelopeHoldsMetadata
          /\ target.kind \in TypedKinds => target.HTTPResponse = "envelope"
          /\ target.kind = "EmptyResponse" => target.HTTPResponse = "nil"
    /\ (pc \in {"status", "parse", "ok"} \/ (Returned /\ ReadOK)) => httpResponse.alloc

C8_Witness ==
    /\ Returned /\ target.kind = "Dictionary" /\ target.HTTPResponse = "envelope"
    /\ dret.err = ErrParse /\ httpResponse.Status = StatusOK

\* C9: a returned facade call gives a result and no error, or an error and no
\* result; a typed getter answered with status 200 and valid JSON whose 'ok'
\* is false gives an error and no result.
C9_ResultXorError ==
    Returned =>
        /\ \/ ret.result # "nil" /\ ret.err = NilErr
           \/ ret.result = "nil" /\ ret.err # NilErr
        /\ (op \in TypedOps /\ ReadOK /\ Status200 /\ DecodesOK /\ ~FlagTrue) =>
              (ret.result = "nil" /\ ret.err = ErrNotOk)

C9_Witness ==
    /\ Returned /\ op = "GetAccount" /\ resp.body = errorResponseBody /\ Status200
    /\ ret.result = "nil" /\ ret.err = ErrNotOk

\* C10 as stated: when client.Do handed a response to the dispatch, its body is
\* read to the end and closed by the time the call returns, on every path.
C10_Original ==
    (Returned /\ Exchanged) => (stream.closed = stream.handed /\ stream.eof)

\* C10 as amended: every response body the transport handed out is closed by
\* the time the call returns, on every exit path; the body of the response
\* given to the dispatch has been read to EOF on every path but the body-read
\* failure, where reading stopped at the failing Read.
C10_BodyClosedOnEveryPath ==
    /\ Returned => stream.closed = stream.handed
    /\ (Returned /\ Exchanged) =>
          /\ stream.handed > 0
          /\ stream.eof <=> (dret.err # ErrRead)
          /\ dret.err = ErrRead => stream.consumed < BodyChunks

C10_Witness ==
    /\ Returned /\ Exchanged /\ dret.err = ErrStatus(StatusServiceUnavailable)
    /\ stream.closed = stream.handed /\ stream.handed > 1 /\ stream.eof

\* Redirect responses the http.Client of this call has followed: every
\* response the transport handed over, less the final one.
Redirects    == stream.handed - (IF Exchanged THEN 1 ELSE 0)
AfterDo      == pc \in {"read", "build", "status", "parse", "ok", "done"}

SelectedEndpoint   == IF client.UseEncryption THEN client.SecureEndpoint
                                              ELSE client.Endpoint
UnselectedEndpoint == IF client.UseEncryption THEN client.Endpoint
                                              ELSE client.SecureEndpoint

\* C13: the request URL is built from the secure endpoint when the encryption
\* flag is set and from the plaintext endpoint otherwise; whatever the other
\* endpoint holds, a valid selected endpoint (with a parsable path) never
\* yields a URI error, and an invalid selected endpoint always yields one.
C13_SelectedEndpointOnly ==
    (Dispatched /\ pc # "uri") =>
        /\ ~IsAbsoluteURL(SelectedEndpoint \o <<"/">>) =>
               (Returned /\ dret.err = ErrURI /\ roundTrips = 0)
        /\ (IsAbsoluteURL(SelectedEndpoint \o <<"/">>) /\ BadEscape \notin Atoms(args.path)) =>
               /\ dret.err # ErrURI
               /\ u.Scheme = Head(SelectedEndpoint)
               /\ u.Host = Tail(SelectedEndpoint)

\* The operations that take identifiers, and the number of "/" in the path
\* documented for each: /entities/{id} and /categories/{id} have two, the
\* paths with an entry or category id, a trailing "/" or "_all" have three.
OneIDPathOps == {"CreateDictionary", "GetDictionary", "DeleteDictionary",
                 "CreateClassifierFromJSON", "CreateClassifierFromCSV",
                 "DeleteClassifier"}
TwoPartPathOps == {"AddDictionaryEntries", "AddDictionaryEntry", "GetDictionaryEntries",
                   "GetDictionaryEntry", "DeleteDictionaryEntry",
                   "GetClassifierCategories", "GetClassifierCategory",
                   "DeleteClassifierCategory"}
Slashes(path) == Cardinality({i \in 1..Len(path) : path[i] = "/"})

\* C18: whatever identifiers an operation is given, URL construction does not
\* fail on a valid endpoint, and the request path has the segment structure
\* documented for the operation and no query string.
C18_IdentifiersPathEscaped ==
    (/\ Dispatched /\ pc # "uri"
     /\ op \in OneIDPathOps \cup TwoPartPathOps
     /\ IsAbsoluteURL(SelectedEndpoint \o <<"/">>)) =>
        /\ dret.err # ErrURI
        /\ ~u.err
        /\ Slashes(u.Path) = (IF op \in OneIDPathOps THEN 2 ELSE 3)
        /\ u.RawQuery = <<>>

\* The running call passed a typed result model to the dispatch.
TypedTarget == target.kind \in TypedKinds /\ pc \notin {"idle", "panic"}
Built       == pc \in {"status", "parse", "ok"} \/ (Returned /\ httpResponse.alloc)

\* C19 as stated, on success: the returned model refers back to the envelope
\* with status 200 and 'ok' true whose inner payload is that same model.
C19_Original ==
    (Returned /\ ret.result = "target") =>
        /\ target.HTTPResponse = "envelope"
        /\ httpResponse.Status = 200 /\ httpResponse.Ok
        /\ httpResponse.Response = "target"

\* C19 as amended: a typed model starts each call fresh; its back-reference is
\* nil until the envelope is built and is the envelope from then on, whatever
\* the body holds; on success the envelope it refers to has status 200 and
\* 'ok' true, and the envelope's inner payload is that model unless the body
\* held "response": null, in which case the payload is nil.
BackReferenceState ==
    TypedTarget =>
        /\ ~Built => target.HTTPResponse = "nil"
        /\ Built  => target.HTTPResponse = "envelope"
        /\ (Returned /\ ret.result = "target") =>
              /\ httpResponse.Status = 200 /\ httpResponse.Ok
              /\ httpResponse.Response =
                    (IF resp.body.response = "null" THEN "nil" ELSE "target")
BackReferenceStep ==
    /\ pc = "idle" => (target'.HTTPResponse = "nil" /\ target'.data = "zero")
    /\ (target.HTTPResponse = "envelope" /\ pc' # "idle") =>
           target'.HTTPResponse = "envelope"
    /\ (target.HTTPResponse = "nil" /\ target'.HTTPResponse = "envelope") =>
           (pc = "build" /\ ~httpResponse.alloc /\ httpResponse'.alloc)
C19_BackReferenceAssignedOnce ==
    []BackReferenceState /\ [][BackReferenceStep]_vars

C19_Witness ==
    /\ Returned /\ op = "GetAccount" /\ ret.result = "target" /\ ret.err = NilErr
    /\ resp.body.response = "null"
    /\ target.HTTPResponse = "envelope" /\ httpResponse.Response = "nil"

\* The key AnalyzeText or AnalyzeURL writes, and the other one of the pair.
OwnKey   == IF op = "AnalyzeText" THEN "text" ELSE "url"
OtherKey == IF op = "AnalyzeText" THEN "url" ELSE "text"
InTextOrURL == op \in {"AnalyzeText", "AnalyzeURL"} /\ pc # "idle"
Rejected(err) ==
    Returned /\ ~Dispatched /\ roundTrips = 0 /\ ret = [result |-> "nil", err |-> err]

\* C20 as stated, the two consequences: AnalyzeText on params that has 'url'
\* set (AnalyzeURL on params that has 'text' set, as after an AnalyzeText on
\* the same map) fails validation without a network call.
C20_Original ==
    (InTextOrURL /\ KeySet(given.params, OtherKey)) => Rejected(ErrValidateOne)

\* C20 as amended: on a nil map the write panics; on any other map the key
\* holds the single given value from the write on, also after the call
\* returned, every other key is as it was, and the call is Analyze on that
\* map: rejected without a network call when both or neither of Get("text"),
\* Get("url") are non-empty or Get("extractors") is empty, dispatched as
\* POST "/" with the map as body otherwise. So a non-empty text on a map whose
\* Get("url") is non-empty (or the reverse) is rejected.
C20_TextThenAnalyze ==
    InTextOrURL =>
        IF given.params.nil
        THEN pc = "panic" /\ params = given.params /\ roundTrips = 0
        ELSE /\ DOMAIN params.m = DOMAIN given.params.m \cup {OwnKey}
             /\ params.m[OwnKey] = <<given.str>>
             /\ \A k \in DOMAIN given.params.m : k # OwnKey => params.m[k] = given.params.m[k]
             /\ LET own   == given.str
                    other == ParamsGet(given.params, OtherKey)
                    ext   == ParamsGet(given.params, "extractors")
                IN  IF (own = "") = (other = "") THEN Rejected(ErrValidateOne)
                    ELSE IF ext = "" THEN Rejected(ErrValidateExt)
                    ELSE /\ args = [path |-> <<"/">>, method |-> MethodPost,
                                    headers |-> FreshHeaders(DefaultHeaders(contentTypeURL)),
                                    body |-> ParamsBody(params)]
                         /\ target.kind = "Analysis"

\* AnalyzeURL on the map an earlier AnalyzeText wrote "t" into.
C20_Witness ==
    /\ calls = 2 /\ op = "AnalyzeURL" /\ given.str = "w"
    /\ KeySet(given.params, "text") /\ given.params.m["text"] = <<"t">>
    /\ params.m["text"] = <<"t">> /\ params.m["url"] = <<"w">>
    /\ Rejected(ErrValidateOne)

\* What call f on client c returns when it runs alone: a function of the
\* call's own arguments and of the answer the transport gave to it.
AloneFails(c, f) ==
    << (EndpointURL(c) = InvalidEndpoint) \/ (BadEscape \in Atoms(f.args.path)),
       f.args.body.kind = "faulty",
       f.args.method = InvalidMethod,
       ~f.resp.got,
       f.resp.failAt # 0,
       f.resp.StatusCode # 200,
       ~(f.resp.body.kind = "json" /\ f.resp.body.response # "string"),
       ~f.resp.body.ok >>
AloneErrs(f) == <<ErrURI, ErrEncode, ErrNewRequest, ErrExecute, ErrRead,
                  ErrStatus(f.resp.StatusCode), ErrParse, ErrNotOk>>
AloneErr(c, f) ==
    IF \E i \in 1..8 : AloneFails(c, f)[i]
    THEN AloneErrs(f)[CHOOSE i \in 1..8 :
                         AloneFails(c, f)[i] /\ \A j \in 1..(i-1) : ~AloneFails(c, f)[j]]
    ELSE NilErr
AloneRet(c, f) ==
    LET err == AloneErr(c, f)
    IN  IF err # NilErr THEN [result |-> "nil", err |-> err]
        ELSE [result |-> IF f.op = "GetAccount" THEN "target" ELSE "envelope",
              err |-> NilErr]
OutcomeAsAlone(c, f) ==
    f.pc = "done" =>
        /\ f.ret = AloneRet(c, f)
        /\ f.target.data = (IF f.op = "GetAccount" /\ AloneErr(c, f) \in {NilErr, ErrNotOk}
                               /\ f.resp.body.response = "object"
                            THEN "decoded" ELSE "zero")
        /\ f.target.HTTPResponse = (IF f.op = "GetAccount" /\ f.httpResponse.alloc
                                    THEN "envelope" ELSE "nil")

\* C12: no step of any call writes a field of the Client, and under every
\* interleaving of two callers' calls each call returns what it returns when
\* it runs alone.
C12_CallsDoNotInterfere ==
    /\ [][client' = client]_vars
    /\ [](/\ OutcomeAsAlone(client, ThisCall)
          /\ \A c \in Callers \ {cur} : OutcomeAsAlone(client, parked[c]))

\* Caller 2 has its account while caller 1, whose call overlaps, is still
\* reading a 503 answer to its CreateDictionary.
C12_Witness ==
    /\ cur = 2 /\ pc = "done" /\ op = "GetAccount" /\ ret = [result |-> "target", err |-> NilErr]
    /\ parked[1].pc = "read" /\ parked[1].op = "CreateDictionary"
    /\ parked[1].resp.StatusCode = StatusServiceUnavailable

\* Reading the program's map and its history.
Stored(p, k)  == IF k \in DOMAIN p.m THEN p.m[k] ELSE <<>>
AllKeys       == TestKeys \cup {"extractors", "limit", "offset", "url"}
LastOp        == ptest.hist[Len(ptest.hist)]
JustDid(o)    == Len(ptest.hist) > 0 /\ ~ptest.panicked /\ LastOp.op = o
OnlyAdds      == \A i \in 1..Len(ptest.hist) : ptest.hist[i].op = "Add"
RECURSIVE AddedUnder(_, _)
AddedUnder(h, k) ==
    IF h = <<>> THEN <<>>
    ELSE (IF Head(h).key = k THEN <<Head(h).value>> ELSE <<>>) \o AddedUnder(Tail(h), k)
OthersUnchanged(k) ==
    \A j \in AllKeys \ {k} :
        /\ (j \in DOMAIN ptest.m.m) = (j \in DOMAIN ptest.prev.m)
        /\ Stored(ptest.m, j) = Stored(ptest.prev, j)

\* C14: after any sequence of Add calls the values under each key are the ones
\* the map began with followed by the values added under that key, in the
\* order they were added, and Get(key) is the first of them, "" when there is
\* none.
C14_AddKeepsInsertionOrder ==
    (OnlyAdds /\ ~ptest.panicked) =>
        \A k \in AllKeys :
            LET all == Stored(ptest.start, k) \o AddedUnder(ptest.hist, k)
            IN  /\ Stored(ptest.m, k) = all
                /\ (k \in DOMAIN ptest.m.m) = (all # <<>>)
                /\ ParamsGet(ptest.m, k) = (IF all = <<>> THEN "" ELSE all[1])

C14_Witness ==
    /\ OnlyAdds /\ ~ptest.panicked /\ ptest.start = MkParams(<<>>)
    /\ ptest.hist = << [op |-> "Add", key |-> "text", value |-> "text2"],
                       [op |-> "Add", key |-> "extractors", value |-> "text1"],
                       [op |-> "Add", key |-> "text", value |-> "text1"] >>
    /\ ptest.m.m["text"] = <<"text2", "text1">>
    /\ ParamsGet(ptest.m, "text") = "text2"

\* C15: after Set(key, value) has returned, whatever calls came before, the
\* key holds exactly the one value, and every other key is as it was.
C15_SetLeavesOneValue ==
    JustDid("Set") =>
        /\ LastOp.key \in DOMAIN ptest.m.m
        /\ ptest.m.m[LastOp.key] = <<LastOp.value>>
        /\ OthersUnchanged(LastOp.key)

C15_Witness ==
    /\ JustDid("Set") /\ Len(ptest.hist) = 3
    /\ ptest.hist[1].op = "Add" /\ ptest.hist[2].op = "Add"
    /\ LastOp.key = "extractors" /\ LastOp.value = "text2"
    /\ Len(Stored(ptest.prev, "extractors")) = 4
    /\ ptest.m.m["extractors"] = <<"text2">>

\* C16: after Del(key) the key is absent, Get(key) is "", no order of the
\* map's keys gives an Encode with a pair for the key, and every other key is
\* as it was.
C16_DelRemovesKey ==
    JustDid("Del") =>
        /\ LastOp.key \notin DOMAIN ptest.m.m
        /\ ParamsGet(ptest.m, LastOp.key) = ""
        /\ \A o \in KeyOrders(ptest.m) :
              LET pairs == ParamsEncodeIter(ptest.m, o).str[2]
              IN  \A i \in 1..Len(pairs) : pairs[i][1] # LastOp.key
        /\ OthersUnchanged(LastOp.key)

C16_Witness ==
    /\ JustDid("Del") /\ LastOp.key = "extractors"
    /\ Len(Stored(ptest.prev, "extractors")) = 3 /\ "text" \in DOMAIN ptest.m.m
    /\ "extractors" \notin DOMAIN ptest.m.m

\* The pairs of map p with the keys in sorted order, the values of a key in
\* stored order.
RECURSIVE PairsFrom(_, _)
PairsFrom(p, i) ==
    IF i > Len(SortedKeys) THEN <<>>
    ELSE [j \in 1..Len(Stored(p, SortedKeys[i])) |->
             <<SortedKeys[i], Stored(p, SortedKeys[i])[j]>>] \o PairsFrom(p, i + 1)
RECURSIVE CountValues(_, _)
CountValues(p, ks) ==
    IF ks = {} THEN 0
    ELSE LET k == CHOOSE x \in ks : TRUE
         IN  Len(p.m[k]) + CountValues(p, ks \ {k})

\* C17: Encode returns a nil error, leaves the map as it was, and its string
\* is a function of the map alone, whatever order the keys come in: the pairs
\* key=value, one per stored value, keys sorted, the values of a key in stored
\* order.
C17_EncodeDeterministic ==
    JustDid("Encode") =>
        /\ ~ptest.enc.err
        /\ ptest.m = ptest.prev
        /\ ptest.enc.str = <<"form", PairsFrom(ptest.m, 1)>>
        /\ Len(ptest.enc.str[2]) = CountValues(ptest.m, DOMAIN ptest.m.m)

C17_Witness ==
    /\ JustDid("Encode") /\ Len(ptest.hist) = 3
    /\ ptest.hist[1] = [op |-> "Add", key |-> "text", value |-> "text1"]
    /\ ptest.hist[2] = [op |-> "Del", key |-> "text", value |-> ""]
    /\ ptest.m.m = [k \in {"extractors"} |-> <<"entities", "entailments">>]
    /\ ptest.enc.str = <<"form", << <<"extractors", "entities">>,
                                    <<"extractors", "entailments">> >> >>

\* The call was handed a header map of its caller; args.headers.map is that
\* map as it was on entry, hdrs is the map as it is now.
CallerHeaders == Dispatched /\ args.headers.ref = "caller"

\* C21: a dispatch leaves the header map of its caller as it was, so a map
\* passed to two dispatches in a row is sent with one API-key value each time.
C21_CallerHeadersUnchanged ==
    CallerHeaders =>
        /\ hdrs = args.headers.map
        /\ roundTrips > 0 =>
              Len(req.Header[CanonicalMIMEHeaderKey(apiKeyHeader)]) = 1

\* The decimal representation of the integers the model passes as limit and
\* offset.
Decimal(n) == IF n = 0 THEN "0" ELSE IF n = 20 THEN "20" ELSE "?"
PagedOps   == {"GetDictionaryEntries", "GetClassifierCategories"}

\* C22: the request of GetDictionaryEntries and GetClassifierCategories
\* carries limit and offset as the decimal representations of the integers
\* given (limit 20, offset 0 as limit=20&offset=0).
C22_LimitOffsetDecimal ==
    (op \in PagedOps /\ req.made) =>
        \E lo \in LimitChoices :
            /\ args.body = ParamsBody(MkParams([k \in {"limit", "offset"} |->
                   IF k = "limit" THEN <<Decimal(lo[1])>> ELSE <<Decimal(lo[2])>>]))
            /\ req.Body = <<"form", << <<"limit", Decimal(lo[1])>>,
                                       <<"offset", Decimal(lo[2])>> >> >>

\* The server answered 200 with 'ok' true and no "response" object: the key
\* is missing or its value is null.
OkWithoutResponse ==
    /\ Exchanged /\ ReadOK /\ Status200
    /\ resp.body.kind = "json" /\ resp.body.ok
    /\ resp.body.response \in {"absent", "null"}

\* C23: a 200 response with 'ok' true and no "response" object is a success
\* for every operation: the dispatch returns the envelope and a nil error, and
\* a typed method returns its model, all domain fields zero, and a nil error.
C23_MissingResponseIsSuccess ==
    (Returned /\ Dispatched /\ OkWithoutResponse) =>
        /\ dret = [result |-> "envelope", err |-> NilErr]
        /\ ret.err = NilErr /\ ret.result # "nil"
        /\ op \in TypedOps => (ret.result = "target" /\ target.data = "zero")
        /\ op \notin TypedOps => ret.result = "envelope"

C23_Witness ==
    /\ Returned /\ op = "GetDictionary" /\ OkWithoutResponse
    /\ resp.body.response = "absent"
    /\ ret = [result |-> "target", err |-> NilErr] /\ target.data = "zero"

\* C24: AnalyzeText and AnalyzeURL complete for every params value, the nil
\* map included: the call is never aborted while the "text" or "url" key is
\* being set.
C24_TextURLNeverAbort ==
    op \in {"AnalyzeText", "AnalyzeURL"} => pc # "panic"

====
